---- MODULE Spec2Model ----
(***************************************************************************)
(* Model of the three migration scripts of merge-convex:                   *)
(*   src/users.js       migrateUsers      (MongoDB users -> Convex users)  *)
(*   src/tags.js        updateTags        (tags and their record links)    *)
(*   src/properties.js  updateCoordinates (geocoding of Convex properties) *)
(* Each script is a sequential run; pc is the position of the run in its   *)
(* code.  The source store (MongoDB), the target store (Convex) and the    *)
(* geocoder are the environment: their state is part of the model and a    *)
(* call to them may fail where the network can fail.                       *)
(***************************************************************************)
EXTENDS Integers, Sequences, FiniteSets, TLC

VARIABLES
  pc,            \* position of the running script
  run,           \* number of the current run (1 = first run of the script)
  error,         \* the error caught by the script's outer catch, NoError if none
  mongoOpen,     \* the MongoClient connection is open
  exitCode,      \* the code given to process.exit, NoExit while running
  user,          \* tags.js, properties.js: what users:viewer returned, UNDEF before
  calls,         \* the mutations the running process has issued so far, in order
  migratedCount, skippedCount, errorCount, updatedCount,   \* the scripts' counters
  srcUsers,      \* MongoDB collection users
  cursorPos,     \* users.js: documents the find() cursor has served
  tUsers,        \* Convex table users
  snapshot,      \* the target store as each finished run left it
  srcTagDatas,   \* MongoDB collection tagdatas
  srcTagRefs,    \* MongoDB collection tagrefs
  tagDatas, tagRefs, createdTags, existingTags,  \* tags.js: locals of updateTags
  tagIdx, cIdx, rIdx,                            \* tags.js: positions of the three loops
  tTags,         \* Convex table tags
  tLinks,        \* Convex tag-record links, one entry per addTagToRecord that took effect
  tProps,        \* Convex table properties
  allProperties, cursor, isDone, totalPages, i,  \* properties.js: locals of updateCoordinates
  geocoded,      \* properties.js: the calls of getCoordinates and their answers, in order
  mapScript, mapArgs, mapRets                    \* mapOrgId applied on its own

vars == <<pc, run, error, mongoOpen, exitCode, user, calls, migratedCount, skippedCount,
          errorCount, updatedCount, srcUsers, cursorPos, tUsers, snapshot, srcTagDatas,
          srcTagRefs, tagDatas, tagRefs, createdTags, existingTags, tagIdx, cIdx, rIdx,
          tTags, tLinks, tProps, allProperties, cursor, isDone, totalPages, i, geocoded,
          mapScript, mapArgs, mapRets>>

runVars   == <<pc, run, error, mongoOpen, exitCode, user, calls>>
countVars == <<migratedCount, skippedCount, errorCount, updatedCount>>
userVars  == <<srcUsers, cursorPos, tUsers>>
tagVars   == <<srcTagDatas, srcTagRefs, tagDatas, tagRefs, createdTags, existingTags,
               tagIdx, cIdx, rIdx, tTags, tLinks>>
propVars  == <<allProperties, cursor, isDone, totalPages, i, geocoded>>
mapVars   == <<mapScript, mapArgs, mapRets>>

----------------------------------------------------------------------------
(* Bounds of the model. *)
MaxUsers == 2      \* documents in the source collection users
MaxRuns == 2       \* runs of a script in a row
MaxTags == 2       \* documents in the source collection tagdatas
MaxRefs == 2       \* documents in the source collection tagrefs
MaxProps == 3      \* documents in the target table properties
MaxMapCalls == 3   \* applications of mapOrgId in a row
PageSize == 2      \* paginationOpts.numItems, 1000 in the code, scaled down

----------------------------------------------------------------------------
(* JavaScript values. *)
NULL == "null"
UNDEF == "undefined"
NoError == "none"
NoExit == "running"
ObjectFunction == "[Function: Object.prototype member]"

\* !v for the values an identifier can take: undefined, null and '' are falsy
Truthy(v) == v \notin {UNDEF, NULL, ""}

Has(rec, fieldName) == fieldName \in DOMAIN rec

\* String.prototype.toLowerCase, on strings kept as sequences of characters
LowerChar(c) ==
  CASE c = "A" -> "a" [] c = "B" -> "b" [] c = "D" -> "d" [] c = "E" -> "e"
    [] c = "O" -> "o" [] c = "P" -> "p" [] c = "R" -> "r" [] c = "V" -> "v"
    [] OTHER -> c

toLowerCase(s) == [k \in 1..Len(s) |-> LowerChar(s[k])]

----------------------------------------------------------------------------
(* Identifiers of the source store (ObjectId.toString()) and of the target. *)
K1 == "628bff8d44cd3e01b746b737"
K2 == "628ea3ebfeec685660394d1c"
KX == "5f0000000000000000000000"     \* an organisation that is in no table
T1 == "nd73x7djt7ez0zmyp49n6t0x3h6ztghc"
T2 == "nd7dzk39r6hzmz012cvmgwgqvn70gdm0"
TagsFallbackOrg == "nd70p3ngxkh8n7chaddb81tjpx7166mr"

\* the object literal orgIdMap, the same in both scripts
orgIdMap == (K1 :> T1) @@ (K2 :> T2)

\* names every object literal inherits from Object.prototype
ObjectPrototypeKeys == {"constructor", "toString", "valueOf", "hasOwnProperty"}

\* obj[key] on an object literal: own property, else inherited, else undefined
GetProperty(obj, key) ==
  IF key \in DOMAIN obj THEN obj[key]
  ELSE IF key \in ObjectPrototypeKeys THEN ObjectFunction
  ELSE UNDEF

\* a || null
OrNull(v) == IF Truthy(v) THEN v ELSE NULL

\* users.js mapOrgId
users_mapOrgId(oldId) ==
  IF ~Truthy(oldId) THEN NULL
  ELSE OrNull(GetProperty(orgIdMap, oldId))

\* tags.js mapOrgId
tags_mapOrgId(oldId) ==
  IF ~Truthy(oldId) THEN TagsFallbackOrg
  ELSE OrNull(GetProperty(orgIdMap, oldId))

----------------------------------------------------------------------------
(* Source documents.  Strings that the code case-folds are sequences of    *)
(* characters; a field a document lacks is absent from its record.         *)
Approved == <<"A", "p", "p", "r", "o", "v", "e", "d">>
APPROVED == <<"A", "P", "P", "R", "O", "V", "E", "D">>
approved == <<"a", "p", "p", "r", "o", "v", "e", "d">>
pending  == <<"p", "e", "n", "d", "i", "n", "g">>
Invited  == <<"I", "n", "v", "i", "t", "e", "d">>

Member(teamId, status) == [teamId |-> teamId, status |-> status]

\* the user documents a source collection is made of
UserPool ==
  { [email |-> <<"A", "@">>, team |-> <<Member(K1, Approved)>>, teamActive |-> UNDEF],
    [email |-> <<"a", "@">>, team |-> <<Member(KX, pending), Member(K2, approved)>>,
     teamActive |-> KX],
    [email |-> <<"b", "@">>, team |-> <<Member(K2, Invited), Member(K1, APPROVED)>>,
     teamActive |-> K1],
    [email |-> <<"B", "@">>, team |-> <<Member(K1, pending)>>, teamActive |-> K2],
    [email |-> <<"b", "@">>, team |-> <<>>, teamActive |-> UNDEF],
    [email |-> <<"a", "@">>, team |-> <<Member(KX, Approved)>>, teamActive |-> K1],
    [team |-> <<Member(K1, Approved)>>, teamActive |-> UNDEF],
    [team |-> <<>>, teamActive |-> K1] }

SeqsUpTo(S, n) == UNION {[1..k -> S] : k \in 0..n}
NonEmptySeqsUpTo(S, n) == UNION {[1..k -> S] : k \in 1..n}

----------------------------------------------------------------------------
(* users.js: the transformation of one user, lines 91-127.  Only the      *)
(* fields that carry logic are kept; image, names, phone, presence and     *)
(* providers are copies or literals.  _id is the document's position in    *)
(* the collection.                                                         *)

\* oldUser.email.toLowerCase() throws a TypeError when email is missing
transformThrows(oldUser) == ~Has(oldUser, "email")

memberStatus_CaseSensitive(status) == IF status = approved THEN "active" ELSE "pending"

\* t.status.toLowerCase() === 'approved' ? 'active' : 'pending'
memberStatus(status) == IF toLowerCase(status) = approved THEN "active" ELSE "pending"

mapTeam(team) ==
  [k \in 1..Len(team) |->
     [id |-> users_mapOrgId(team[k].teamId), role |-> "org:member",
      status |-> memberStatus(team[k].status)]]

\* oldUser.team.map(...).filter(org => org.id !== null)
resolvedOrgIds(team) == SelectSeq(mapTeam(team), LAMBDA org : org.id # NULL)

\* the object literal newUser
newUserLiteral(oldUser, id) ==
  [mongoId |-> id,
   email |-> toLowerCase(oldUser.email),
   orgIds |-> resolvedOrgIds(oldUser.team),
   activeOrgId |-> OrNull(users_mapOrgId(oldUser.teamActive))]

\* if (!newUser.activeOrgId && newUser.orgIds.length > 0) activeOrgId = orgIds[0].id
defaultActiveOrg(newUser) ==
  IF ~Truthy(newUser.activeOrgId) /\ Len(newUser.orgIds) > 0
    THEN [newUser EXCEPT !.activeOrgId = newUser.orgIds[1].id]
    ELSE newUser

skipsUser_Never(newUser) == FALSE

\* if (newUser.orgIds.length === 0) ... continue
skipsUser(newUser) == Len(newUser.orgIds) = 0

----------------------------------------------------------------------------
(* The target store's user functions, called by name from users.js.        *)

\* users:getUserByEmail: the _id of the user with that email, 0 for null
getUserByEmail(users, email) ==
  IF \E k \in 1..Len(users) : users[k].email = email
    THEN CHOOSE k \in 1..Len(users) :
           /\ users[k].email = email
           /\ \A j \in 1..(k - 1) : users[j].email # email
    ELSE 0

\* users:create: a new document with a fresh _id
createUser(users, newUser) == Append(users, [_id |-> Len(users) + 1] @@ newUser)

\* users:update: the document with that _id takes the fields sent
updateUser(users, id, newUser) == [users EXCEPT ![id] = [_id |-> id] @@ newUser]

\* the target store as a run leaves it, and whether the run reached its end
\* without an error in the outer catch
Target(e) == [users |-> tUsers, tags |-> tTags, links |-> tLinks, props |-> tProps,
              completed |-> (e = NoError),
              allOk |-> (\A k \in 1..Len(calls) : calls[k].ok)]

UserCall(op, src, id, doc, ok) ==
  [op |-> op, src |-> src, id |-> id, doc |-> doc, ok |-> ok]

----------------------------------------------------------------------------
(* users.js: migrateUsers. *)

\* the user cursor.next() serves
oldUserAt(pos) == srcUsers[pos]

\* lines 62-84: connect, count, open the cursor, declare the counters
U_Connect ==
  /\ pc = "u_start"
  /\ pc' = "u_loop"
  /\ mongoOpen' = TRUE
  /\ cursorPos' = 0
  /\ migratedCount' = 0 /\ errorCount' = 0 /\ skippedCount' = 0
  /\ UNCHANGED <<run, error, exitCode, user, calls, updatedCount, srcUsers, tUsers, snapshot,
                 tagVars, tProps, propVars, mapVars>>

\* the outer catch, lines 158-160: the error is logged and the run goes to finally
U_Fatal(e) ==
  /\ error' = e
  /\ pc' = "u_finally"

\* mongoClient.connect() or countDocuments() rejects
U_ConnectFails ==
  /\ pc = "u_start"
  /\ U_Fatal("MongoError")
  /\ UNCHANGED <<run, mongoOpen, exitCode, user, calls, countVars, userVars, snapshot,
                 tagVars, tProps, propVars, mapVars>>

\* cursor.hasNext() or cursor.next() rejects
U_CursorFails ==
  /\ pc = "u_loop"
  /\ cursorPos < Len(srcUsers)
  /\ U_Fatal("MongoError")
  /\ UNCHANGED <<run, mongoOpen, exitCode, user, calls, countVars, userVars, snapshot,
                 tagVars, tProps, propVars, mapVars>>

\* lines 88-115 throw: nothing inside the loop catches it
U_TransformThrows ==
  /\ pc = "u_loop"
  /\ cursorPos < Len(srcUsers)
  /\ transformThrows(oldUserAt(cursorPos + 1))
  /\ cursorPos' = cursorPos + 1
  /\ U_Fatal("TypeError")
  /\ UNCHANGED <<run, mongoOpen, exitCode, user, calls, countVars, srcUsers, tUsers, snapshot,
                 tagVars, tProps, propVars, mapVars>>

\* lines 117-122
U_Skip ==
  /\ pc = "u_loop"
  /\ cursorPos < Len(srcUsers)
  /\ ~transformThrows(oldUserAt(cursorPos + 1))
  /\ skipsUser(newUserLiteral(oldUserAt(cursorPos + 1), cursorPos + 1))
  /\ cursorPos' = cursorPos + 1
  /\ skippedCount' = skippedCount + 1
  /\ UNCHANGED <<pc, run, error, mongoOpen, exitCode, user, calls, migratedCount, errorCount,
                 updatedCount, srcUsers, tUsers, snapshot, tagVars, tProps, propVars,
                 mapVars>>

\* the user the loop body writes
candidate(pos) == defaultActiveOrg(newUserLiteral(oldUserAt(pos), pos))

writesUser(pos) ==
  /\ ~transformThrows(oldUserAt(pos))
  /\ ~skipsUser(newUserLiteral(oldUserAt(pos), pos))

\* line 130 rejects: the query is outside the inner try blocks
U_QueryFails ==
  /\ pc = "u_loop"
  /\ cursorPos < Len(srcUsers)
  /\ writesUser(cursorPos + 1)
  /\ cursorPos' = cursorPos + 1
  /\ U_Fatal("QueryError")
  /\ UNCHANGED <<run, mongoOpen, exitCode, user, calls, countVars, srcUsers, tUsers, snapshot,
                 tagVars, tProps, propVars, mapVars>>

existingUser_None(users, email) == 0

\* line 130: const existingUser = await convexClient.query('users:getUserByEmail', ...)
existingUser(users, email) == getUserByEmail(users, email)

\* lines 133-142.  updatedCount is declared nowhere in users.js: after a
\* successful update, updatedCount++ throws a ReferenceError inside the try,
\* so the catch counts the user as an error, as it does when the call fails.
U_Update(ok) ==
  /\ pc = "u_loop"
  /\ cursorPos < Len(srcUsers)
  /\ writesUser(cursorPos + 1)
  /\ LET newUser == candidate(cursorPos + 1)
         id == existingUser(tUsers, newUser.email)
     IN /\ id # 0
        /\ calls' = Append(calls, UserCall("users:update", cursorPos + 1, id, newUser, ok))
        /\ tUsers' = IF ok THEN updateUser(tUsers, id, newUser) ELSE tUsers
  /\ cursorPos' = cursorPos + 1
  /\ errorCount' = errorCount + 1
  /\ UNCHANGED <<pc, run, error, mongoOpen, exitCode, user, migratedCount, skippedCount,
                 updatedCount, srcUsers, snapshot, tagVars, tProps, propVars, mapVars>>

\* lines 143-153
U_Create(ok) ==
  /\ pc = "u_loop"
  /\ cursorPos < Len(srcUsers)
  /\ writesUser(cursorPos + 1)
  /\ LET newUser == candidate(cursorPos + 1)
         id == existingUser(tUsers, newUser.email)
     IN /\ id = 0
        /\ calls' = Append(calls, UserCall("users:create", cursorPos + 1, 0, newUser, ok))
        /\ tUsers' = IF ok THEN createUser(tUsers, newUser) ELSE tUsers
  /\ cursorPos' = cursorPos + 1
  /\ migratedCount' = IF ok THEN migratedCount + 1 ELSE migratedCount
  /\ errorCount' = IF ok THEN errorCount ELSE errorCount + 1
  /\ UNCHANGED <<pc, run, error, mongoOpen, exitCode, user, skippedCount, updatedCount,
                 srcUsers, snapshot, tagVars, tProps, propVars, mapVars>>

\* the cursor is exhausted: line 157 logs the statistics
U_Summary ==
  /\ pc = "u_loop"
  /\ cursorPos = Len(srcUsers)
  /\ pc' = "u_finally"
  /\ UNCHANGED <<run, error, mongoOpen, exitCode, user, calls, countVars, userVars, snapshot,
                 tagVars, tProps, propVars, mapVars>>

\* lines 160-162, after which the script has nothing left to run and node
\* ends the process with code 0
U_Finally ==
  /\ pc = "u_finally"
  /\ pc' = "u_end"
  /\ mongoOpen' = FALSE
  /\ exitCode' = "0"
  /\ snapshot' = Append(snapshot, Target(error))
  /\ UNCHANGED <<run, error, user, calls, countVars, userVars, tagVars, tProps, propVars,
                 mapVars>>

\* node users.js is started again against the same stores: a new process,
\* whose variables are those of a first run
U_Rerun ==
  /\ pc = "u_end"
  /\ run < MaxRuns
  /\ run' = run + 1
  /\ pc' = "u_start"
  /\ error' = NoError
  /\ exitCode' = NoExit
  /\ calls' = <<>>
  /\ cursorPos' = 0
  /\ migratedCount' = 0 /\ skippedCount' = 0 /\ errorCount' = 0
  /\ UNCHANGED <<mongoOpen, user, updatedCount, srcUsers, tUsers, snapshot,
                 tagVars, tProps, propVars, mapVars>>

NextUsers ==
  \/ U_Connect
  \/ U_ConnectFails
  \/ U_CursorFails
  \/ U_TransformThrows
  \/ U_Skip
  \/ U_QueryFails
  \/ \E ok \in BOOLEAN : U_Update(ok)
  \/ \E ok \in BOOLEAN : U_Create(ok)
  \/ U_Summary
  \/ U_Finally
  \/ U_Rerun

----------------------------------------------------------------------------
(* tags.js: source documents and pure helpers. *)
U_Known == "628c069244cd3e01b746bb27"      \* a user of userIdMap
U_Other == "5f00000000000000000000aa"      \* a user that is in no table
FallbackUser == "jx7af8p9kcxg2hy7b4zgzez5056ztvpv"

\* the object literal userIdMap
userIdMap ==
  ("628c069244cd3e01b746bb27" :> "jx7fccjdbh0tkk4d8sm5gkk55572ckx7") @@
  ("628c068a44cd3e01b746bb1b" :> "jx72n00r91av5bhvac1y1vj0ss72d194") @@
  ("632245717e8b30f96324399b" :> "jx7ehz07gwg8tgz2a085n3t75172cncs") @@
  ("60e1f01a93969009be99b46d" :> "jx71hh2kfx7j6v7504envzx1yn72dpk0") @@
  ("628c06f044cd3e01b746bb9e" :> "jx72pj9eav4g6wxec8wvc1txjd72d1p3") @@
  ("628c06a644cd3e01b746bb63" :> "jx7c59n0knmjg8n8yn62pyvh2s72dhsc") @@
  ("628c06b744cd3e01b746bb7a" :> "jx72yacpvkhc779st99xp6sfnx72d5x8") @@
  ("6334d9efe649ad2f1edecbae" :> "jx79wfbcyaaqnvcejqmdqpya8x72cr0k") @@
  ("66020ef2ad9f7a60cfd5de5e" :> "jx7ax8tdwcp3rd461a8rmn0tz172d1wh") @@
  ("6322457f7e8b30f9632439a7" :> "jx7864z64kzcm2p1xfj3wkk83172csvw") @@
  ("665fbbd06451bf23d3eab6c1" :> "jx7f7y699zrhyn46aa8dr6ym9572cf20") @@
  ("632245667e8b30f963244398f" :> "jx743dfq80jftth0bfdb1e6gq172cnnw") @@
  ("63225d8c7e8b30f963244450" :> "jx7d8ft0whj3zcjxqpqd05jdqs72d7mq") @@
  ("66045830ad9f7a60cfd74077" :> "jx7amjhxaqxnc55fs7mh4x73gh72d4qz") @@
  ("61382e137d8edd0023c1539d" :> "jx77anct8xft6ej3q3tetcbkp172cw5z") @@
  ("636025626b13702974981ad4" :> "jx7a5hmy7w66fpkjd4ew8a90rx72ddzf") @@
  ("65fb6089ad9f7a60cfd48b7f" :> "jx73e8tf5hp6wvxvew0wks9rth72cs4p") @@
  ("628c06c344cd3e01b746bb86" :> "jx7drgj8n8kx18egwwwkje8v9x72dkdf") @@
  ("6363f4a55acbe1bf42c33415" :> "jx73wsrz21fdttqfc6wxptyd1h72dygk")

\* tags.js mapUserId
mapUserId(oldId) ==
  IF ~Truthy(oldId) THEN NULL
  ELSE LET v == GetProperty(userIdMap, oldId)
       IN IF Truthy(v) THEN v ELSE FallbackUser

\* the tag documents a source collection is made of; _id is the position
TagPool ==
  { [tag |-> "Hot Lead", team |-> K1, userId |-> U_Known],
    [tag |-> "Hot Lead", team |-> K2, userId |-> U_Other],
    [tag |-> "Cold", team |-> K2],
    [tag |-> "Cold", team |-> KX, userId |-> U_Known] }

\* the reference documents: tag _id, source id of the record, record kind
RefPool ==
  { [tagObject |-> "1", refWith |-> "p1", type |-> "property"],
    [tagObject |-> "1", refWith |-> "p9", type |-> "property"],
    [tagObject |-> "2", refWith |-> "p1", type |-> "property"],
    [tagObject |-> "1", refWith |-> "p2", type |-> "contact"] }

\* the target properties of a tag run: p9 is migrated nowhere
TagRunProps == << [mongoId |-> "p1", address |-> UNDEF, location |-> NULL],
                  [mongoId |-> "p2", address |-> UNDEF, location |-> NULL] >>

\* _id.toString() of the k-th document of a collection
ObjectIdString(k) == ToString(k)

WithId(docs) == [k \in 1..Len(docs) |-> [_id |-> ObjectIdString(k)] @@ docs[k]]

filter_All(tagData) == TRUE

\* find(filter).toArray(): team $in the two migrated organisations
filter(tagData) == tagData.team \in {K1, K2}

\* find(refFilter).toArray(): type $in ['property']
refFilter(tagRef) == tagRef.type \in {"property"}

\* lines 137-144: the references grouped by tagObject, each group in source order
tagRefMap(refs) ==
  [t \in {refs[k].tagObject : k \in 1..Len(refs)} |->
     SelectSeq(refs, LAMBDA tagRef : tagRef.tagObject = t)]

\* tagRefMap[mongoId] || []
referencesOf(refs, mongoId) ==
  IF mongoId \in DOMAIN tagRefMap(refs) THEN tagRefMap(refs)[mongoId] ELSE <<>>

\* tag.id of a target tag: the documents carry _id and mongoId, and no id
TagDotId(tag) == IF Has(tag, "id") THEN tag.id ELSE UNDEF

existingTagIds(existing) == {TagDotId(existing[k]) : k \in 1..Len(existing)}
existingTagNames(existing) == {existing[k].name : k \in 1..Len(existing)}

isDuplicateTag_ByIdOnly(existing, tagData) == tagData._id \in existingTagIds(existing)

\* line 163: existingTagIds.has(mongoId) || existingTagNames.has(tagData.tag)
isDuplicateTag(existing, tagData) ==
  \/ tagData._id \in existingTagIds(existing)
  \/ tagData.tag \in existingTagNames(existing)

\* lines 169-176: the local recordType, which nothing reads afterwards
localRecordType(references) ==
  LET hasContacts == \E k \in 1..Len(references) : references[k].type = "contact"
      hasProperties == \E k \in 1..Len(references) : references[k].type = "property"
  IN IF ~hasContacts /\ hasProperties THEN "properties"
     ELSE IF hasContacts /\ ~hasProperties THEN "contacts"
     ELSE UNDEF

\* tagData.userId.toString() throws a TypeError when userId is missing
newTagThrows(tagData) == ~Has(tagData, "userId")

\* lines 179-188: the object literal newTagData
newTagData(tagData) ==
  [orgId |-> tags_mapOrgId(tagData.team),
   name |-> tagData.tag,
   recordType |-> "properties",
   userIds |-> <<[userId |-> mapUserId(tagData.userId), role |-> "tag:admin"]>>,
   mongoId |-> tagData._id]

----------------------------------------------------------------------------
(* The target store's tag and property functions, called by name.          *)

\* tags:createTagFromMongo: a new tag document; its _id is the data returned
createTagFromMongo(tags, doc) == Append(tags, [_id |-> Len(tags) + 1] @@ doc)

\* properties:getByMongoId: the _id of the property migrated from that
\* source record, 0 for null
getByMongoId(props, mongoId) ==
  IF \E k \in 1..Len(props) : props[k].mongoId = mongoId
    THEN CHOOSE k \in 1..Len(props) : props[k].mongoId = mongoId
    ELSE 0

\* tags:getTagsForRecord: the _ids of the tags linked to the record
getTagsForRecord(links, recordId) ==
  {links[k].tagId : k \in {j \in 1..Len(links) : links[j].recordId = recordId}}

\* tags:addTagToRecord
addTagToRecord(links, recordId, tagId) ==
  Append(links, [recordId |-> recordId, tagId |-> tagId])

TagCall(op, src, doc, ok) ==
  [op |-> op, src |-> src, id |-> 0, doc |-> doc, ok |-> ok]

----------------------------------------------------------------------------
(* tags.js: updateTags. *)

\* the position of the next link attempt at or after (c, r) in the two loops
\* of lines 202-236, or <<0, 0>> when the loops are over
RECURSIVE LinkPosition(_, _, _, _)
LinkPosition(created, refs, c, r) ==
  IF c > Len(created) THEN <<0, 0>>
  ELSE IF r <= Len(referencesOf(refs, created[c].mongoId)) THEN <<c, r>>
  ELSE LinkPosition(created, refs, c + 1, 1)

\* where the run stands after a link attempt, or after the create call
AfterLinkStep(created, c, r) ==
  LET next == LinkPosition(created, tagRefs, c, r)
  IN IF next = <<0, 0>>
       THEN /\ pc' = "t_tags"
            /\ tagIdx' = tagIdx + 1
            /\ cIdx' = 0
            /\ rIdx' = 0
       ELSE /\ pc' = "t_link"
            /\ tagIdx' = tagIdx
            /\ cIdx' = next[1]
            /\ rIdx' = next[2]

\* lines 93-100
T_Connect ==
  /\ pc = "t_start"
  /\ pc' = "t_auth"
  /\ mongoOpen' = TRUE
  /\ UNCHANGED <<run, error, exitCode, user, calls, countVars, userVars, snapshot,
                 tagVars, tProps, propVars, mapVars>>

\* the outer catch, lines 245-247
T_Fatal(e) ==
  /\ error' = e
  /\ pc' = "t_finally"

T_ConnectFails ==
  /\ pc = "t_start"
  /\ T_Fatal("MongoError")
  /\ UNCHANGED <<run, mongoOpen, exitCode, user, calls, countVars, userVars, snapshot,
                 tagVars, tProps, propVars, mapVars>>

authenticationFailed_Never(viewer) == FALSE

\* if (!user) throw new Error("Authentication failed")
authenticationFailed(viewer) == ~Truthy(viewer)

\* lines 102-110
T_Auth(viewer) ==
  /\ pc = "t_auth"
  /\ user' = viewer
  /\ IF authenticationFailed(viewer)
       THEN T_Fatal("Authentication failed")
       ELSE pc' = "t_extract" /\ error' = error
  /\ UNCHANGED <<run, mongoOpen, exitCode, calls, countVars, userVars, snapshot,
                 tagVars, tProps, propVars, mapVars>>

\* lines 112-154: both collections read, the created-tag map emptied, the
\* existing tags fetched once
T_Extract ==
  /\ pc = "t_extract"
  /\ pc' = "t_tags"
  /\ tagDatas' = SelectSeq(WithId(srcTagDatas), filter)
  /\ tagRefs' = SelectSeq(srcTagRefs, refFilter)
  /\ createdTags' = <<>>
  /\ existingTags' = tTags
  /\ tagIdx' = 0 /\ cIdx' = 0 /\ rIdx' = 0
  /\ UNCHANGED <<run, error, mongoOpen, exitCode, user, calls, countVars, userVars,
                 snapshot, srcTagDatas, srcTagRefs, tTags, tLinks, tProps, propVars,
                 mapVars>>

\* a toArray() or the tags:getAll query rejects
T_ExtractFails ==
  /\ pc = "t_extract"
  /\ T_Fatal("MongoError")
  /\ UNCHANGED <<run, mongoOpen, exitCode, user, calls, countVars, userVars, snapshot,
                 tagVars, tProps, propVars, mapVars>>

tagData == tagDatas[tagIdx + 1]

\* lines 162-166
T_SkipDuplicate ==
  /\ pc = "t_tags"
  /\ tagIdx < Len(tagDatas)
  /\ isDuplicateTag(existingTags, tagData)
  /\ tagIdx' = tagIdx + 1
  /\ UNCHANGED <<runVars, countVars, userVars, snapshot, srcTagDatas, srcTagRefs,
                 tagDatas, tagRefs, createdTags, existingTags, cIdx, rIdx, tTags, tLinks,
                 tProps, propVars, mapVars>>

\* lines 179-188 throw: the catch of line 238 logs it and the loop goes on
T_TagThrows ==
  /\ pc = "t_tags"
  /\ tagIdx < Len(tagDatas)
  /\ ~isDuplicateTag(existingTags, tagData)
  /\ newTagThrows(tagData)
  /\ tagIdx' = tagIdx + 1
  /\ UNCHANGED <<runVars, countVars, userVars, snapshot, srcTagDatas, srcTagRefs,
                 tagDatas, tagRefs, createdTags, existingTags, cIdx, rIdx, tTags, tLinks,
                 tProps, propVars, mapVars>>

setCreated_Always(created, mongoId, data, ok) ==
  Append(created, [mongoId |-> mongoId, tagId |-> data])

\* lines 193-196: if (result.status === 'success') createdTags.set(mongoId, result.data)
setCreated(created, mongoId, data, ok) ==
  IF ok THEN Append(created, [mongoId |-> mongoId, tagId |-> data]) ELSE created

\* lines 190-201: the create call, then the link loops start over every tag
\* created so far in this run
T_Create(ok) ==
  /\ pc = "t_tags"
  /\ tagIdx < Len(tagDatas)
  /\ ~isDuplicateTag(existingTags, tagData)
  /\ ~newTagThrows(tagData)
  /\ calls' = Append(calls, TagCall("tags:createTagFromMongo", tagData._id,
                                    newTagData(tagData), ok))
  /\ tTags' = IF ok THEN createTagFromMongo(tTags, newTagData(tagData)) ELSE tTags
  /\ createdTags' = setCreated(createdTags, tagData._id, Len(tTags) + 1, ok)
  /\ AfterLinkStep(createdTags', 1, 1)
  /\ UNCHANGED <<run, error, mongoOpen, exitCode, user, countVars, userVars, snapshot,
                 srcTagDatas, srcTagRefs, tagDatas, tagRefs, existingTags, tLinks, tProps,
                 propVars, mapVars>>

\* the reference and the tag of the link attempt the run stands at
ref == referencesOf(tagRefs, createdTags[cIdx].mongoId)[rIdx]
convexTagId == createdTags[cIdx].tagId
record == getByMongoId(tProps, ref.refWith)

\* line 209 returned null, so that record._id of line 215 throws
recordMissing(rec) == rec = 0

\* line 209 returned null: record._id throws, the catch of line 232 logs it
T_LinkUnresolved ==
  /\ pc = "t_link"
  /\ recordMissing(record)
  /\ AfterLinkStep(createdTags, cIdx, rIdx + 1)
  /\ UNCHANGED <<run, error, mongoOpen, exitCode, user, calls, countVars, userVars,
                 snapshot, srcTagDatas, srcTagRefs, tagDatas, tagRefs, createdTags,
                 existingTags, tTags, tLinks, tProps, propVars, mapVars>>

alreadyLinked_Never(links, recordId, tagId) == FALSE

\* lines 214-220: existingTags.some(tag => tag._id === convexTagId)
alreadyLinked(links, recordId, tagId) == tagId \in getTagsForRecord(links, recordId)

\* lines 229-231
T_LinkExists ==
  /\ pc = "t_link"
  /\ ~recordMissing(record)
  /\ alreadyLinked(tLinks, record, convexTagId)
  /\ AfterLinkStep(createdTags, cIdx, rIdx + 1)
  /\ UNCHANGED <<run, error, mongoOpen, exitCode, user, calls, countVars, userVars,
                 snapshot, srcTagDatas, srcTagRefs, tagDatas, tagRefs, createdTags,
                 existingTags, tTags, tLinks, tProps, propVars, mapVars>>

\* lines 220-228
T_LinkAdd(ok) ==
  /\ pc = "t_link"
  /\ ~recordMissing(record)
  /\ ~alreadyLinked(tLinks, record, convexTagId)
  /\ calls' = Append(calls, TagCall("tags:addTagToRecord", createdTags[cIdx].mongoId,
                                    [recordId |-> record, tagId |-> convexTagId], ok))
  /\ tLinks' = IF ok THEN addTagToRecord(tLinks, record, convexTagId) ELSE tLinks
  /\ AfterLinkStep(createdTags, cIdx, rIdx + 1)
  /\ UNCHANGED <<run, error, mongoOpen, exitCode, user, countVars, userVars, snapshot,
                 srcTagDatas, srcTagRefs, tagDatas, tagRefs, createdTags, existingTags,
                 tTags, tProps, propVars, mapVars>>

\* lines 243-244: process.exit(0) ends the process inside the try block, so
\* the finally block does not run
T_Exit ==
  /\ pc = "t_tags"
  /\ tagIdx = Len(tagDatas)
  /\ pc' = "t_end"
  /\ exitCode' = "0"
  /\ snapshot' = Append(snapshot, Target(error))
  /\ UNCHANGED <<run, error, mongoOpen, user, calls, countVars, userVars, tagVars,
                 tProps, propVars, mapVars>>

\* lines 247-249 after the outer catch; node then ends the process with code 0
T_Finally ==
  /\ pc = "t_finally"
  /\ pc' = "t_end"
  /\ mongoOpen' = FALSE
  /\ exitCode' = "0"
  /\ snapshot' = Append(snapshot, Target(error))
  /\ UNCHANGED <<run, error, user, calls, countVars, userVars, tagVars, tProps,
                 propVars, mapVars>>

\* node tags.js is started again against the same stores: a new process,
\* whose variables are those of a first run
T_Rerun ==
  /\ pc = "t_end"
  /\ run < MaxRuns
  /\ run' = run + 1
  /\ pc' = "t_start"
  /\ error' = NoError
  /\ exitCode' = NoExit
  /\ user' = UNDEF
  /\ mongoOpen' = FALSE
  /\ tagDatas' = <<>> /\ tagRefs' = <<>> /\ createdTags' = <<>> /\ existingTags' = <<>>
  /\ tagIdx' = 0 /\ cIdx' = 0 /\ rIdx' = 0
  /\ calls' = <<>>
  /\ UNCHANGED <<countVars, userVars, snapshot, srcTagDatas, srcTagRefs, tTags,
                 tLinks, tProps, propVars, mapVars>>

NextTags ==
  \/ T_Connect
  \/ T_ConnectFails
  \/ \E viewer \in {"viewer", NULL} : T_Auth(viewer)
  \/ T_Extract
  \/ T_ExtractFails
  \/ T_SkipDuplicate
  \/ T_TagThrows
  \/ \E ok \in BOOLEAN : T_Create(ok)
  \/ T_LinkUnresolved
  \/ T_LinkExists
  \/ \E ok \in BOOLEAN : T_LinkAdd(ok)
  \/ T_Exit
  \/ T_Finally
  \/ T_Rerun

\* the names a tag of the source collection may be given
TagNames == {t.tag : t \in TagPool}

\* between two runs somebody renames a tag of the source collection, which
\* line 115 reads anew in every run: the document keeps its _id
T_SourceRenamed(k, name) ==
  /\ pc = "t_end"
  /\ run < MaxRuns
  /\ k \in 1..Len(srcTagDatas)
  /\ name # srcTagDatas[k].tag
  /\ srcTagDatas' = [srcTagDatas EXCEPT ![k].tag = name]
  /\ UNCHANGED <<runVars, countVars, userVars, snapshot, srcTagRefs, tagDatas, tagRefs,
                 createdTags, existingTags, tagIdx, cIdx, rIdx, tTags, tLinks, tProps,
                 propVars, mapVars>>

NextTagsEdited ==
  \/ NextTags
  \/ \E k \in 1..MaxTags, name \in TagNames : T_SourceRenamed(k, name)

----------------------------------------------------------------------------
(* properties.js.  A property document is [mongoId, address, location];    *)
(* its _id is its position in the table.                                *)
PropPool ==
  { [mongoId |-> "p1", address |-> a, location |-> NULL] :
      a \in {UNDEF, "1 Main St"} }

\* what the geocoding service answers for an address: coordinates, an
\* answer without results, or no answer (the request fails)
GeocoderAnswers(address) == {"results", "no results", "request failed"}

Lng == "-122.4"
Lat == "37.8"

hasResults_Always(answer) == TRUE

\* response.data.results && response.data.results.length > 0, line 71; a
\* failed request goes to the catch of line 79
hasResults(answer) == answer = "results"

\* getCoordinates, lines 62-83: null unless the answer holds a result
getCoordinates(answer) ==
  IF hasResults(answer)
    THEN [coordinates |-> <<Lng, Lat>>, type |-> "Point"]
    ELSE NULL

\* properties:getProperties: the page after the cursor, of at most numItems
\* documents; the cursor is the number of documents served, null being 0.
\* gap is a page without documents before the end of the source, as a
\* paginated query serves when the documents it scanned for the page were
\* all filtered out (isDeleted: false): it does not signal completion.
getProperties(props, after, numItems, done, gap) ==
  LET last == IF after + numItems < Len(props) THEN after + numItems ELSE Len(props)
  IN IF gap /\ after < Len(props)
       THEN [page |-> <<>>, continueCursor |-> after, isDone |-> FALSE]
       ELSE [page |-> SubSeq(WithId(props), after + 1, last),
             continueCursor |-> last,
             isDone |-> (last = Len(props) /\ done)]

\* properties:updateProperty
updateProperty(props, id, location) == [props EXCEPT ![id].location = location]

PropCall(op, src, doc, ok) ==
  [op |-> op, src |-> src, id |-> src, doc |-> doc, ok |-> ok]

\* the outer catch, lines 198-200; the function returns and node ends the
\* process with code 0
P_Fatal(e) ==
  /\ error' = e
  /\ pc' = "p_end"
  /\ exitCode' = "0"
  /\ snapshot' = Append(snapshot, Target(e))

\* lines 99-117
P_Auth(viewer) ==
  /\ pc = "p_start"
  /\ user' = viewer
  /\ IF authenticationFailed(viewer)
       THEN /\ P_Fatal("Authentication failed")
            /\ UNCHANGED <<allProperties, cursor, isDone, totalPages>>
       ELSE /\ pc' = "p_fetch"
            /\ allProperties' = <<>>
            /\ cursor' = 0
            /\ isDone' = FALSE
            /\ totalPages' = 0
            /\ UNCHANGED <<error, exitCode, snapshot>>
  /\ UNCHANGED <<run, mongoOpen, calls, countVars, userVars, tagVars, tProps, i,
                 geocoded, mapVars>>

pageIsEmpty_Never(page) == FALSE

\* if (!result.page.length) break
pageIsEmpty(page) == Len(page) = 0

\* the cap of the page counter: every counted page holds a property, so the
\* counter stays below it
MaxPages == MaxProps + 1

\* allProperties = [...allProperties, ...result.page]
accumulate(all, page) == all \o page

\* lines 120-136, one turn of the loop; done is whether the server signals
\* completion with the last documents or only with the empty page after them
P_FetchPage(done, gap) ==
  /\ pc = "p_fetch"
  /\ ~isDone
  /\ totalPages < MaxPages
  /\ LET result == getProperties(tProps, cursor, PageSize, done, gap)
     IN IF pageIsEmpty(result.page)
          THEN /\ pc' = "p_counters"
               /\ UNCHANGED <<allProperties, cursor, isDone, totalPages>>
          ELSE /\ pc' = pc
               /\ totalPages' = totalPages + 1
               /\ allProperties' = accumulate(allProperties, result.page)
               /\ cursor' = result.continueCursor
               /\ isDone' = result.isDone
  /\ UNCHANGED <<run, error, mongoOpen, exitCode, user, calls, countVars, userVars,
                 snapshot, tagVars, tProps, i, geocoded, mapVars>>

\* the query of line 121 rejects
P_FetchFails ==
  /\ pc = "p_fetch"
  /\ ~isDone
  /\ P_Fatal("FetchError")
  /\ UNCHANGED <<run, mongoOpen, user, calls, countVars, userVars, tagVars, tProps,
                 propVars, mapVars>>

\* lines 138-147: the loop is left, the counters are declared
P_Counters ==
  /\ \/ pc = "p_fetch" /\ isDone
     \/ pc = "p_counters"
  /\ pc' = "p_loop"
  /\ updatedCount' = 0 /\ skippedCount' = 0 /\ errorCount' = 0
  /\ i' = 0
  /\ UNCHANGED <<run, error, mongoOpen, exitCode, user, calls, migratedCount, userVars,
                 snapshot, tagVars, tProps, allProperties, cursor, isDone, totalPages,
                 geocoded, mapVars>>

property == allProperties[i + 1]

hasNoAddress_Never(prop) == FALSE

\* if (!property.address)
hasNoAddress(prop) == ~Truthy(prop.address)

\* lines 150-154
P_Skip ==
  /\ pc = "p_loop"
  /\ i < Len(allProperties)
  /\ hasNoAddress(property)
  /\ skippedCount' = skippedCount + 1
  /\ i' = i + 1
  /\ UNCHANGED <<runVars, migratedCount, errorCount, updatedCount, userVars, snapshot,
                 tagVars, tProps, allProperties, cursor, isDone, totalPages, geocoded,
                 mapVars>>

\* lines 161-167: getCoordinates returned null, which it does exactly when
\* the answer holds no result
P_NoCoordinates(answer) ==
  /\ pc = "p_loop"
  /\ i < Len(allProperties)
  /\ ~hasNoAddress(property)
  /\ answer \in GeocoderAnswers(property.address)
  /\ ~hasResults(answer)
  /\ geocoded' = Append(geocoded, [id |-> property._id, answer |-> answer])
  /\ errorCount' = errorCount + 1
  /\ i' = i + 1
  /\ UNCHANGED <<runVars, migratedCount, skippedCount, updatedCount, userVars, snapshot,
                 tagVars, tProps, allProperties, cursor, isDone, totalPages, mapVars>>

countUpdated_Always(n, ok) == n + 1

\* updatedCount++ of line 180 stands behind the awaited call of line 173: it
\* is reached when the call succeeded
countUpdated(n, ok) == IF ok THEN n + 1 ELSE n

\* lines 169-187: the update call; its failure is caught at line 184
P_Update(answer, ok) ==
  /\ pc = "p_loop"
  /\ i < Len(allProperties)
  /\ ~hasNoAddress(property)
  /\ answer \in GeocoderAnswers(property.address)
  /\ hasResults(answer)
  /\ LET location == getCoordinates(answer)
         id == property._id
     IN /\ calls' = Append(calls, PropCall("properties:updateProperty", i + 1,
                                           [id |-> id, location |-> location], ok))
        /\ tProps' = IF ok THEN updateProperty(tProps, i + 1, location) ELSE tProps
  /\ geocoded' = Append(geocoded, [id |-> property._id, answer |-> answer])
  /\ updatedCount' = countUpdated(updatedCount, ok)
  /\ errorCount' = IF ok THEN errorCount ELSE errorCount + 1
  /\ i' = i + 1
  /\ UNCHANGED <<pc, run, error, mongoOpen, exitCode, user, migratedCount, skippedCount,
                 userVars, snapshot, tagVars, allProperties, cursor, isDone, totalPages,
                 mapVars>>

\* lines 190-197: the summary, then process.exit(0)
P_Summary ==
  /\ pc = "p_loop"
  /\ i = Len(allProperties)
  /\ pc' = "p_end"
  /\ exitCode' = "0"
  /\ snapshot' = Append(snapshot, Target(error))
  /\ UNCHANGED <<run, error, mongoOpen, user, calls, countVars, userVars, tagVars,
                 tProps, propVars, mapVars>>

\* node properties.js is started again against the same store: a new
\* process, whose variables are those of a first run
P_Rerun ==
  /\ pc = "p_end"
  /\ run < MaxRuns
  /\ run' = run + 1
  /\ pc' = "p_start"
  /\ error' = NoError
  /\ exitCode' = NoExit
  /\ user' = UNDEF
  /\ allProperties' = <<>> /\ cursor' = 0 /\ isDone' = FALSE /\ totalPages' = 0
  /\ i' = 0 /\ geocoded' = <<>>
  /\ skippedCount' = 0 /\ errorCount' = 0 /\ updatedCount' = 0
  /\ calls' = <<>>
  /\ UNCHANGED <<mongoOpen, migratedCount, userVars, snapshot, tagVars, tProps,
                 mapVars>>

NextProps ==
  \/ \E viewer \in {"viewer", NULL} : P_Auth(viewer)
  \/ \E done, gap \in BOOLEAN : P_FetchPage(done, gap)
  \/ P_FetchFails
  \/ P_Counters
  \/ P_Skip
  \/ \E answer \in {"results", "no results", "request failed"} : P_NoCoordinates(answer)
  \/ \E answer \in {"results", "no results", "request failed"}, ok \in BOOLEAN :
       P_Update(answer, ok)
  \/ P_Summary
  \/ P_Rerun

----------------------------------------------------------------------------
(* mapOrgId of either script applied to identifiers, one call after        *)
(* another.                                                                *)
MapInputs == {UNDEF, NULL, "", K1, K2, KX, "constructor"}

M_Users(oldId) ==
  /\ pc = "map"
  /\ mapScript = "users"
  /\ Len(mapArgs) < MaxMapCalls
  /\ mapArgs' = Append(mapArgs, oldId)
  /\ mapRets' = Append(mapRets, users_mapOrgId(oldId))
  /\ UNCHANGED <<runVars, countVars, userVars, snapshot, tagVars, tProps, propVars,
                 mapScript>>

M_Tags(oldId) ==
  /\ pc = "map"
  /\ mapScript = "tags"
  /\ Len(mapArgs) < MaxMapCalls
  /\ mapArgs' = Append(mapArgs, oldId)
  /\ mapRets' = Append(mapRets, tags_mapOrgId(oldId))
  /\ UNCHANGED <<runVars, countVars, userVars, snapshot, tagVars, tProps, propVars,
                 mapScript>>

NextMap ==
  \/ \E oldId \in MapInputs : M_Users(oldId)
  \/ \E oldId \in MapInputs : M_Tags(oldId)

----------------------------------------------------------------------------
(* Initial states. *)
InitRun(start) ==
  /\ pc = start
  /\ run = 1
  /\ error = NoError
  /\ mongoOpen = FALSE
  /\ exitCode = NoExit
  /\ user = UNDEF
  /\ calls = <<>>
  /\ snapshot = <<>>
  /\ migratedCount = 0 /\ skippedCount = 0 /\ errorCount = 0 /\ updatedCount = 0

NoUsers == srcUsers = <<>> /\ cursorPos = 0 /\ tUsers = <<>>

NoTags ==
  /\ srcTagDatas = <<>> /\ srcTagRefs = <<>>
  /\ tagDatas = <<>> /\ tagRefs = <<>> /\ createdTags = <<>> /\ existingTags = <<>>
  /\ tagIdx = 0 /\ cIdx = 0 /\ rIdx = 0
  /\ tTags = <<>> /\ tLinks = <<>>

NoProps ==
  /\ allProperties = <<>> /\ cursor = 0 /\ isDone = FALSE /\ totalPages = 0 /\ i = 0
  /\ geocoded = <<>>

NoMap == mapScript = "users" /\ mapArgs = <<>> /\ mapRets = <<>>

InitUsers ==
  /\ InitRun("u_start")
  /\ srcUsers \in NonEmptySeqsUpTo(UserPool, MaxUsers)
  /\ cursorPos = 0
  /\ tUsers = <<>>
  /\ NoTags /\ tProps = <<>> /\ NoProps /\ NoMap

SpecUsers == InitUsers /\ [][NextUsers]_vars

InitTags ==
  /\ InitRun("t_start")
  /\ NoUsers
  /\ srcTagDatas \in NonEmptySeqsUpTo(TagPool, MaxTags)
  /\ srcTagRefs \in SeqsUpTo(RefPool, MaxRefs)
  /\ tagDatas = <<>> /\ tagRefs = <<>> /\ createdTags = <<>> /\ existingTags = <<>>
  /\ tagIdx = 0 /\ cIdx = 0 /\ rIdx = 0
  /\ tTags = <<>> /\ tLinks = <<>>
  /\ tProps = TagRunProps
  /\ NoProps /\ NoMap

SpecTags == InitTags /\ [][NextTags]_vars

\* the tag runs over a source collection whose tags are renamed meanwhile
SpecTagsEdited == InitTags /\ [][NextTagsEdited]_vars

InitProps ==
  /\ InitRun("p_start")
  /\ NoUsers /\ NoTags
  /\ tProps \in SeqsUpTo(PropPool, MaxProps)
  /\ NoProps /\ NoMap

SpecProps == InitProps /\ [][NextProps]_vars

\* the property run when every awaited page query is answered and the loop
\* goes on: a query may still reject, but none stays pending for ever
SpecPropsLive ==
  /\ InitProps
  /\ [][NextProps]_vars
  /\ WF_vars(\E done, gap \in BOOLEAN : P_FetchPage(done, gap))
  /\ WF_vars(P_Counters)

InitMap ==
  /\ InitRun("map")
  /\ NoUsers /\ NoTags /\ tProps = <<>> /\ NoProps
  /\ mapScript \in {"users", "tags"}
  /\ mapArgs = <<>> /\ mapRets = <<>>

SpecMapOrg == InitMap /\ [][NextMap]_vars

\* one of the scripts is run, any number of times, or mapOrgId is applied
Init == InitUsers \/ InitTags \/ InitProps \/ InitMap

Next == NextUsers \/ NextTags \/ NextProps \/ NextMap

Spec == Init /\ [][Next]_vars

----------------------------------------------------------------------------
(* Vocabulary of the properties. *)
Range(f) == {f[x] : x \in DOMAIN f}

LastCall(log) == log[Len(log)]

IsCreate(c) == c.op \in {"users:create", "tags:createTagFromMongo"}
IsUserWrite(c) == c.op \in {"users:create", "users:update"}
IsAddLink(c) == c.op = "tags:addTagToRecord"

\* the pairs (upper-case letter, its lower-case letter) of the alphabet used
CasePairs == {<<"A", "a">>, <<"B", "b">>, <<"D", "d">>, <<"E", "e">>, <<"O", "o">>,
              <<"P", "p">>, <<"R", "r">>, <<"V", "v">>, <<"I", "i">>}
UpperCase == {p[1] : p \in CasePairs}

\* low is s with every upper-case letter replaced by its lower-case letter
IsLowerCased(s, low) ==
  /\ Len(low) = Len(s)
  /\ \A k \in 1..Len(s) :
       \/ s[k] \notin UpperCase /\ low[k] = s[k]
       \/ <<s[k], low[k]>> \in CasePairs

EqualIgnoringCase(s, t) ==
  /\ Len(s) = Len(t)
  /\ \A k \in 1..Len(s) :
       \/ s[k] = t[k]
       \/ <<s[k], t[k]>> \in CasePairs
       \/ <<t[k], s[k]>> \in CasePairs

----------------------------------------------------------------------------
\* C1: when the user migration or the tag migration is run twice against the
\* same source from an empty target, both runs reaching their end and every
\* call succeeding, the second run leaves the target as the first left it,
\* issues no create and no add-link call, and classifies no record as an
\* error: what the first run created is skipped or updated.
C1_SecondRunIdempotent ==
  ( /\ pc \in {"u_end", "t_end"}
    /\ run = 2
    /\ Len(snapshot) = 2
    /\ snapshot[1].completed /\ snapshot[2].completed
    /\ snapshot[1].allOk /\ snapshot[2].allOk )
  => /\ snapshot[2] = snapshot[1]
     /\ \A k \in 1..Len(calls) : ~IsCreate(calls[k]) /\ ~IsAddLink(calls[k])
     /\ pc = "u_end" => errorCount = 0 /\ migratedCount = 0

\* the same, of the target store and the calls alone
C1_SecondRunSameTarget ==
  ( /\ pc \in {"u_end", "t_end"}
    /\ run = 2
    /\ Len(snapshot) = 2
    /\ snapshot[1].completed /\ snapshot[2].completed
    /\ snapshot[1].allOk /\ snapshot[2].allOk )
  => /\ snapshot[2] = snapshot[1]
     /\ \A k \in 1..Len(calls) : ~IsCreate(calls[k]) /\ ~IsAddLink(calls[k])

----------------------------------------------------------------------------
\* the target store holds a link of the tag to the record
Linked(links, tagId, recordId) ==
  \E k \in 1..Len(links) : links[k].tagId = tagId /\ links[k].recordId = recordId

NoDuplicateLink ==
  \A k1, k2 \in 1..Len(tLinks) : tLinks[k1] = tLinks[k2] => k1 = k2

AddLinkOnlyWhenAbsent ==
  (Len(calls') > Len(calls) /\ IsAddLink(LastCall(calls')))
    => ~Linked(tLinks, LastCall(calls').doc.tagId, LastCall(calls').doc.recordId)

\* C2: over any number of tag runs and whatever the reference table holds,
\* the target store never holds two links of the same tag to the same
\* record, and an add-link call is issued only for a tag the record's links,
\* as they are when the call is made, do not contain.
C2_AtMostOneLink == []NoDuplicateLink /\ [][AddLinkOnlyWhenAbsent]_vars

\* C2 witness: the run stands at a reference to a record that already holds
\* the tag, after that link was added.
C2_Witness ==
  /\ pc = "t_link"
  /\ record # 0
  /\ Linked(tLinks, convexTagId, record)

----------------------------------------------------------------------------
\* no team entry of the user maps to a target organisation
EmptyMembership(oldUser) ==
  \A k \in 1..Len(oldUser.team) : users_mapOrgId(oldUser.team[k].teamId) = NULL

\* the step hands the next user of the cursor to the loop body
TakesUser == pc = "u_loop" /\ cursorPos' = cursorPos + 1

----------------------------------------------------------------------------
\* C4: in both scripts mapOrgId returns, for every input, a value of the
\* static organisation table or null.
C4_MapOrgTotalStrict ==
  \A k \in 1..Len(mapRets) : mapRets[k] \in Range(orgIdMap) \cup {NULL}

----------------------------------------------------------------------------
\* C5: a failure confined to one record (a transform failure, a failed
\* write, a failed link attempt) never aborts the run: when the run ends
\* without a failure of the source store, of authentication or of a query,
\* every extracted record was processed and counted.
C5_RecordFailureNeverAborts ==
  /\ (pc = "u_end" /\ error \in {NoError, "TypeError"})
       => /\ cursorPos = Len(srcUsers)
          /\ migratedCount + skippedCount + errorCount = Len(srcUsers)
  /\ (pc = "t_end" /\ error \in {NoError, "TypeError"})
       => tagIdx = Len(tagDatas)
  /\ (pc = "p_end" /\ error \in {NoError, "TypeError"})
       => /\ i = Len(allProperties)
          /\ updatedCount + skippedCount + errorCount = Len(allProperties)

----------------------------------------------------------------------------
\* authentication failed, or the source store or a page fetch failed
FatalFailure == user = NULL \/ error \in {"MongoError", "FetchError"}

\* C6: once authentication or extraction has failed, the run issues no
\* create, update or add-link call and the target store does not change.
C6_FatalErrorStopsWrites ==
  [][ (FatalFailure /\ run' = run)
        => /\ calls' = calls
           /\ tUsers' = tUsers /\ tTags' = tTags /\ tLinks' = tLinks
           /\ tProps' = tProps ]_vars

\* C6 witness: in a run that follows a completed one, a page fetch failed
\* after a page with properties had been fetched, and the run ended without
\* a call.
C6_Witness ==
  /\ pc = "p_end"
  /\ error = "FetchError"
  /\ Len(allProperties) > 0
  /\ run = 2
  /\ snapshot[1].completed
  /\ calls = <<>>

----------------------------------------------------------------------------
\* the target holds a user with the candidate's email and none with its
\* source identifier
UserMatchesByEmailOnly(pos) ==
  /\ Has(srcUsers[pos], "email")
  /\ ~EmptyMembership(srcUsers[pos])
  /\ \E k \in 1..Len(tUsers) : IsLowerCased(srcUsers[pos].email, tUsers[k].email)
  /\ ~\E k \in 1..Len(tUsers) : tUsers[k].mongoId = pos

UserMatchesByEmail(pos) ==
  /\ Has(srcUsers[pos], "email")
  /\ ~EmptyMembership(srcUsers[pos])
  /\ \E k \in 1..Len(tUsers) : IsLowerCased(srcUsers[pos].email, tUsers[k].email)

\* the run stands at a tag whose name a tag of the target carried when the
\* run fetched the existing tags
TagMatchesByName ==
  /\ pc = "t_tags"
  /\ tagIdx < Len(tagDatas)
  /\ \E k \in 1..Len(existingTags) : existingTags[k].name = tagDatas[tagIdx + 1].tag

TagSkipped == calls' = calls /\ tTags' = tTags /\ tLinks' = tLinks

C7_TagSkipReached ==
  /\ pc = "t_tags"
  /\ run = 2
  /\ tagIdx > 0
  /\ \E k \in 1..Len(existingTags) : existingTags[k].name = tagDatas[tagIdx].tag
  /\ calls = <<>>

----------------------------------------------------------------------------
\* the membership list the claim describes: the team entries in source
\* order, the unmapped ones left out
RECURSIVE ExpectedMembership(_)
ExpectedMembership(team) ==
  IF team = <<>> THEN <<>>
  ELSE LET t == Head(team)
           here == IF users_mapOrgId(t.teamId) = NULL THEN <<>>
                   ELSE << [id |-> users_mapOrgId(t.teamId),
                            status |-> IF EqualIgnoringCase(t.status, approved)
                                         THEN "active" ELSE "pending"] >>
       IN here \o ExpectedMembership(Tail(team))

WrittenAsClaimed(oldUser, doc) ==
  LET expected == ExpectedMembership(oldUser.team)
      explicit == users_mapOrgId(oldUser.teamActive)
  IN /\ IsLowerCased(oldUser.email, doc.email)
     /\ Len(doc.orgIds) = Len(expected)
     /\ \A k \in 1..Len(expected) :
          /\ doc.orgIds[k].id = expected[k].id
          /\ doc.orgIds[k].status = expected[k].status
     /\ doc.activeOrgId = IF oldUser.teamActive # UNDEF /\ explicit # NULL
                            THEN explicit
                            ELSE expected[1].id

\* C8: every user record sent in a create or update call has the source
\* email lower-cased, the team entries mapped in source order without the
\* unmapped ones, status active exactly for a source status equal to
\* approved ignoring case, and as activeOrgId the mapped explicit active
\* organisation when there is one, else the first resolved membership.
C8_TransformedUser ==
  \A k \in 1..Len(calls) :
    IsUserWrite(calls[k]) => WrittenAsClaimed(srcUsers[calls[k].src], calls[k].doc)

\* C8 witness: one written user had its email lower-cased, another lost an
\* unmapped team entry and took its first membership as active organisation.
C8_Witness ==
  /\ \E k \in 1..Len(calls) :
       /\ calls[k].ok
       /\ calls[k].doc.email # srcUsers[calls[k].src].email
  /\ \E k \in 1..Len(calls) :
       /\ calls[k].ok
       /\ Len(calls[k].doc.orgIds) < Len(srcUsers[calls[k].src].team)
       /\ srcUsers[calls[k].src].teamActive # UNDEF
       /\ calls[k].doc.activeOrgId = calls[k].doc.orgIds[1].id
       /\ calls[k].doc.orgIds[1].status = "active"

----------------------------------------------------------------------------
\* the source holds a reference of that kind to the tag
HasReference(tagId, kind) ==
  \E k \in 1..Len(srcTagRefs) :
    srcTagRefs[k].tagObject = tagId /\ srcTagRefs[k].type = kind

\* C9: a created tag is written with recordType contacts when its references
\* are of contact type only, and properties in every other case.
C9_RecordTypeFromReferences ==
  \A k \in 1..Len(calls) :
    calls[k].op = "tags:createTagFromMongo"
      => calls[k].doc.recordType =
           IF HasReference(calls[k].src, "contact")
              /\ ~HasReference(calls[k].src, "property")
             THEN "contacts" ELSE "properties"

----------------------------------------------------------------------------
\* C10: a property without an address is skipped: getCoordinates is not
\* called for it, no update call is issued, the skipped counter goes up by
\* one and the updated and error counters stay.
C10_NoAddressSkipped ==
  [][ ( /\ pc = "p_loop"
        /\ i' = i + 1
        /\ allProperties[i + 1].address \in {UNDEF, NULL, ""} )
        => /\ geocoded' = geocoded
           /\ calls' = calls
           /\ tProps' = tProps
           /\ skippedCount' = skippedCount + 1
           /\ updatedCount' = updatedCount
           /\ errorCount' = errorCount ]_vars

\* C10 witness: a property without an address was skipped after another
\* property had been geocoded.
C10_Witness ==
  /\ pc = "p_loop"
  /\ i > 1
  /\ allProperties[i].address = UNDEF
  /\ skippedCount = 1
  /\ Len(geocoded) = i - 1

----------------------------------------------------------------------------
\* the step asked the geocoder about the current property and got no
\* coordinates: the answer held no result or the request failed
GeocodingGaveNothing ==
  /\ pc = "p_loop"
  /\ Len(geocoded') = Len(geocoded) + 1
  /\ LastCall(geocoded').answer \in {"no results", "request failed"}

\* C11: for a property with an address whose geocoding returns no result or
\* fails, no update call is issued, the stored properties stay as they were,
\* and the error counter grows by exactly one, the other counters by nothing.
C11_NoCoordinatesIsOneError ==
  [][ GeocodingGaveNothing
        => /\ calls' = calls
           /\ tProps' = tProps
           /\ errorCount' = errorCount + 1
           /\ updatedCount' = updatedCount
           /\ skippedCount' = skippedCount ]_vars

\* C11 witness: in one run the geocoder failed for one property and had no
\* result for another, and neither was written.
C11_Witness ==
  /\ pc = "p_end"
  /\ \E k \in 1..Len(geocoded) : geocoded[k].answer = "request failed"
  /\ \E k \in 1..Len(geocoded) : geocoded[k].answer = "no results"
  /\ calls = <<>>
  /\ errorCount = Len(geocoded)
  /\ errorCount >= 2

----------------------------------------------------------------------------
\* an organization identifier that resolved: a target identifier of the
\* static table, hence neither null nor undefined
Resolved(id) == id # NULL /\ id # UNDEF /\ id \in Range(orgIdMap)

\* the source tag with that _id belongs to an organization of the table
TagOfMappedTeam(id) ==
  \E j \in 1..Len(srcTagDatas) :
    ObjectIdString(j) = id /\ srcTagDatas[j].team \in DOMAIN orgIdMap

\* C12: every write for a record that references an organization carries a
\* resolved organization: a tag create call has a non-null orgId, a user
\* write a non-null activeOrgId and no membership with a null id; a tag of
\* an unmapped organization and a user without a mapped one are not written.
C12_WritesCarryOrganization ==
  \A k \in 1..Len(calls) :
    /\ calls[k].op = "tags:createTagFromMongo"
         => /\ Resolved(calls[k].doc.orgId)
            /\ TagOfMappedTeam(calls[k].src)
    /\ IsUserWrite(calls[k])
         => /\ Resolved(calls[k].doc.activeOrgId)
            /\ \A m \in 1..Len(calls[k].doc.orgIds) : Resolved(calls[k].doc.orgIds[m].id)
            /\ ~EmptyMembership(srcUsers[calls[k].src])

\* C12 witness: a tag run ended that created a tag while the source also
\* held a tag of an organization that is not in the table.
C12_Witness ==
  /\ pc = "t_end"
  /\ error = NoError
  /\ \E j \in 1..Len(srcTagDatas) : srcTagDatas[j].team = KX
  /\ \E k \in 1..Len(calls) : calls[k].op = "tags:createTagFromMongo" /\ calls[k].ok

----------------------------------------------------------------------------
\* C13: the page loop of the property run terminates: the pages counted never
\* outnumber the properties of the source, and a run that requests pages
\* eventually starts processing the records, unless a page query rejects.
C13_ExtractionTerminates ==
  /\ [](totalPages <= Len(tProps))
  /\ (pc = "p_fetch") ~> (pc = "p_loop" \/ error = "FetchError")

\* C13 witness: the loop took more than one page and a last, empty one to
\* read a source whose completion the server signalled late, and the run
\* went on to the records.
C13_Witness ==
  /\ pc = "p_loop"
  /\ totalPages >= 2
  /\ ~isDone
  /\ Len(allProperties) = Len(tProps)

----------------------------------------------------------------------------
\* the extraction of the property run has ended without error and no record
\* has been processed yet
ExtractionFinished ==
  \/ pc = "p_counters"
  \/ pc = "p_fetch" /\ isDone
  \/ pc = "p_loop" /\ i = 0

C14_PagesUpToStop ==
  /\ (pc = "p_fetch" \/ ExtractionFinished)
       => /\ cursor <= Len(tProps)
          /\ allProperties = SubSeq(WithId(tProps), 1, cursor)
  /\ (ExtractionFinished /\ (isDone \/ cursor = Len(tProps)))
       => allProperties = WithId(tProps)

----------------------------------------------------------------------------
\* C15: when the process of a user run or of a tag run has ended, on whatever
\* path, the connection to the source store has been closed.
C15_ConnectionClosedAtExit ==
  pc \in {"u_end", "t_end"} => ~mongoOpen

----------------------------------------------------------------------------
\* C16: a run that has ended has exit code 0 exactly when it completed
\* without an error reaching the outer catch.
C16_ExitCodeTellsCompletion ==
  pc \in {"u_end", "t_end", "p_end"} => (exitCode = "0" <=> error = NoError)

----------------------------------------------------------------------------
\* the run stands at a reference whose record the target store does not hold
LinkTargetUnresolved == pc = "t_link" /\ record = 0

\* after the attempt the run goes on: to the next reference of the same tag
\* when there is one, else to a later created tag or to the next source tag,
\* and no error reaches the outer catch
GoesOnAfterAttempt ==
  /\ error' = error
  /\ IF rIdx < Len(referencesOf(tagRefs, createdTags[cIdx].mongoId))
       THEN pc' = "t_link" /\ cIdx' = cIdx /\ rIdx' = rIdx + 1 /\ tagIdx' = tagIdx
       ELSE \/ pc' = "t_link" /\ cIdx' > cIdx /\ rIdx' = 1 /\ tagIdx' = tagIdx
            \/ pc' = "t_tags" /\ tagIdx' = tagIdx + 1

\* C17, as claimed: for a reference whose record is not resolved no add-link
\* call is issued, the attempt is counted as an error, and the run goes on
\* with the remaining references and the later tags.
C17_UnresolvedCountedErrored ==
  [][ LinkTargetUnresolved
        => /\ calls' = calls
           /\ tLinks' = tLinks
           /\ errorCount' = errorCount + 1
           /\ GoesOnAfterAttempt ]_vars

\* what does hold of such a reference: no add-link call is issued and no
\* link is stored; the failure is caught by the catch of the attempt, which
\* counts nothing (the tag run keeps no counter); and the run goes on with
\* the remaining references and the later tags.
C17_UnresolvedSkippedUncounted ==
  [][ LinkTargetUnresolved
        => /\ calls' = calls
           /\ tLinks' = tLinks
           /\ UNCHANGED countVars
           /\ GoesOnAfterAttempt ]_vars

----------------------------------------------------------------------------
\* among the first n calls of the run there is a successful create call for
\* the source tag with that _id
CreatedBefore(n, mongoId) ==
  \E j \in 1..n :
    /\ calls[j].op = "tags:createTagFromMongo"
    /\ calls[j].ok
    /\ calls[j].src = mongoId

\* C18: an add-link call is issued only after the create call for its tag
\* succeeded earlier in the run, and carries the identifier of the tag that
\* create stored; a record lookup or link query is made only for a tag the
\* run created, never for one it skipped or failed to create.
C18_LinkOnlyAfterCreate ==
  /\ \A k \in 1..Len(calls) :
       IsAddLink(calls[k])
         => /\ CreatedBefore(k - 1, calls[k].src)
            /\ calls[k].doc.tagId \in 1..Len(tTags)
            /\ tTags[calls[k].doc.tagId].mongoId = calls[k].src
            /\ ~\E e \in 1..Len(existingTags) : existingTags[e]._id = calls[k].doc.tagId
  /\ pc = "t_link"
       => /\ CreatedBefore(Len(calls), createdTags[cIdx].mongoId)
          /\ convexTagId \in 1..Len(tTags)
          /\ tTags[convexTagId].mongoId = createdTags[cIdx].mongoId

\* C18 witness: a link was added for a created tag, while the create call of
\* another tag, which has a reference too, failed.
C18_Witness ==
  /\ \E k \in 1..Len(calls) : IsAddLink(calls[k]) /\ calls[k].ok
  /\ \E j \in 1..Len(calls) :
       /\ calls[j].op = "tags:createTagFromMongo"
       /\ ~calls[j].ok
       /\ \E r \in 1..Len(tagRefs) : tagRefs[r].tagObject = calls[j].src

----------------------------------------------------------------------------
\* C19: a created tag is linked once, right after its creation, and done is
\* terminal: every link attempt (record lookup, link query) of the run is
\* for the source tag the tag loop stands at, never for a tag whose
\* references were iterated while an earlier source tag was processed.
C19_DoneIsTerminal ==
  pc = "t_link" => createdTags[cIdx].mongoId = tagData._id

\* the existing target tags, fetched at the start of the run, among which
\* one carries the source identifier, or the name, of the tag
CarriesSourceId(existing, td) == \E k \in 1..Len(existing) : existing[k].mongoId = td._id
CarriesName(existing, td) == \E k \in 1..Len(existing) : existing[k].name = td.tag

\* the step issues a create call for the tag the loop stands at
IssuesCreate ==
  /\ pc = "t_tags"
  /\ tagIdx < Len(tagDatas)
  /\ Len(calls') = Len(calls) + 1
  /\ calls'[Len(calls')].op = "tags:createTagFromMongo"
  /\ calls'[Len(calls')].src = tagData._id

\* C20: a create call for a source tag is issued only if no target tag
\* fetched at the start of the run carries its source identifier and none
\* carries its name: a tag that matches on either key gets no create call.
C20_CreateOnlyIfNoKeyMatches ==
  [][IssuesCreate =>
       /\ ~CarriesSourceId(existingTags, tagData)
       /\ ~CarriesName(existingTags, tagData)]_vars

\* the name half of C20: no create call for a tag whose name a fetched
\* target tag carries, and the step that passes it over issues no call
C20_NameMatchNotCreated ==
  [][(pc = "t_tags" /\ tagIdx < Len(tagDatas) /\ CarriesName(existingTags, tagData))
       => (calls' = calls /\ tTags' = tTags)]_vars

\* a run stands at a tag that a fetched target tag matches by the source
\* identifier and not by the name
C20_IdOnlyMatchReached ==
  /\ pc = "t_tags"
  /\ tagIdx < Len(tagDatas)
  /\ CarriesSourceId(existingTags, tagData)
  /\ ~CarriesName(existingTags, tagData)

\* the write calls of the run with that name and that outcome
CallsOf(op, ok) == {k \in 1..Len(calls) : calls[k].op = op /\ calls[k].ok = ok}

\* the users the run has read and skipped for an empty membership list
SkippedUsers ==
  {k \in 1..cursorPos :
     /\ ~transformThrows(oldUserAt(k))
     /\ skipsUser(newUserLiteral(oldUserAt(k), k))}

\* C21: at the end of a user run the updated count is the number of update
\* calls that succeeded, the created count the number of create calls that
\* succeeded, the errored count the number of write calls that failed, and
\* the skipped count the number of users skipped for an empty membership.
C21_CountersReflectOutcomes ==
  pc = "u_end" =>
    /\ updatedCount = Cardinality(CallsOf("users:update", TRUE))
    /\ migratedCount = Cardinality(CallsOf("users:create", TRUE))
    /\ errorCount = Cardinality(CallsOf("users:update", FALSE))
                      + Cardinality(CallsOf("users:create", FALSE))
    /\ skippedCount = Cardinality(SkippedUsers)

\* the part of C21 that the code keeps: created and skipped are exact, and
\* the errored count is the failed writes plus every update that succeeded
C21_CreatedSkippedExact ==
  pc = "u_end" =>
    /\ migratedCount = Cardinality(CallsOf("users:create", TRUE))
    /\ skippedCount = Cardinality(SkippedUsers)
    /\ errorCount = Cardinality(CallsOf("users:update", FALSE))
                      + Cardinality(CallsOf("users:create", FALSE))
                      + Cardinality(CallsOf("users:update", TRUE))
    /\ updatedCount = 0

\* the three counters of a property run, and its update calls
CounterSum == updatedCount + skippedCount + errorCount
UpdateCalls == {k \in 1..Len(calls) : calls[k].op = "properties:updateProperty"}
SummaryReached == pc = "p_end" /\ error = NoError

\* one turn of the loop over the extracted properties adds one to exactly
\* one of the three counters and issues at most one update call
OneCounterStep ==
  /\ \/ /\ updatedCount' = updatedCount + 1
        /\ skippedCount' = skippedCount /\ errorCount' = errorCount
     \/ /\ skippedCount' = skippedCount + 1
        /\ updatedCount' = updatedCount /\ errorCount' = errorCount
     \/ /\ errorCount' = errorCount + 1
        /\ updatedCount' = updatedCount /\ skippedCount' = skippedCount
  /\ \/ calls' = calls
     \/ /\ Len(calls') = Len(calls) + 1
        /\ calls'[Len(calls')].doc.id = allProperties[i']._id

\* C22: in a property run every extracted property increments exactly one of
\* updated, skipped, errors, and at most one update call is issued for it;
\* when the summary is reached the three counters add up to the number of
\* extracted properties and updated is the number of update calls that
\* succeeded.
C22_OneCounterPerProperty ==
  /\ [][(pc = "p_loop" /\ i' = i + 1) => OneCounterStep]_vars
  /\ [](pc = "p_loop" =>
          /\ CounterSum = i
          /\ \A j, k \in UpdateCalls : calls[j].doc.id = calls[k].doc.id => j = k)
  /\ [](SummaryReached =>
          /\ CounterSum = Len(allProperties)
          /\ updatedCount = Cardinality({k \in UpdateCalls : calls[k].ok}))

\* C22 witness: the summary is reached after a property was skipped, one got
\* no coordinates, and one was updated
C22_Witness ==
  /\ SummaryReached
  /\ skippedCount = 1 /\ errorCount = 1 /\ updatedCount = 1
  /\ Len(allProperties) = 3
  /\ Cardinality(UpdateCalls) = 1

\* the target users whose email, lower-cased, is that one
UsersWithEmail(users, email) ==
  {k \in 1..Len(users) : toLowerCase(users[k].email) = toLowerCase(email)}

\* the step issues a create call for the user the cursor serves
IssuesUserCreate ==
  /\ pc = "u_loop"
  /\ Len(calls') = Len(calls) + 1
  /\ calls'[Len(calls')].op = "users:create"

\* C23: after any sequence of user runs that starts on an empty target the
\* target holds at most one user per lower-cased email, also when source
\* users have emails that are equal after lower-casing: a create call is
\* issued only when the target, as it is just before the write, holds no
\* user with the email, so a later user with the same email is updated.
C23_OneUserPerEmail ==
  /\ [](\A k \in 1..Len(tUsers) :
          Cardinality(UsersWithEmail(tUsers, tUsers[k].email)) = 1)
  /\ [][IssuesUserCreate =>
          UsersWithEmail(tUsers, calls'[Len(calls')].doc.email) = {}]_vars

\* C23 witness: a run over two users whose emails differ in case only has
\* created the first and updated it with the second
C23_Witness ==
  /\ pc = "u_end"
  /\ Len(srcUsers) = 2
  /\ \A k \in 1..2 : Has(srcUsers[k], "email")
  /\ srcUsers[1].email # srcUsers[2].email
  /\ toLowerCase(srcUsers[1].email) = toLowerCase(srcUsers[2].email)
  /\ Len(calls) = 2
  /\ calls[1].op = "users:create" /\ calls[1].ok
  /\ calls[2].op = "users:update" /\ calls[2].ok
  /\ Len(tUsers) = 1

\* the target tags that carry the name
TagsNamed(tags, name) == {k \in 1..Len(tags) : tags[k].name = name}

\* C24: after any sequence of tag runs that starts on an empty target, the
\* target holds at most one tag per name, also when several source tags
\* have the same label.
C24_OneTagPerName ==
  \A k \in 1..Len(tTags) : Cardinality(TagsNamed(tTags, tTags[k].name)) = 1

\* what the code keeps of C24: a run creates no tag whose name the target
\* held when the run fetched the existing tags
C24_NoCreateOfFetchedName ==
  [][(pc = "t_tags" /\ tTags' # tTags) =>
       TagsNamed(existingTags, tTags'[Len(tTags')].name) = {}]_vars

====
